---- MODULE Spec2Model ----
(***************************************************************************)
(* Tile-provider resolution and fallback of the climate dashboard          *)
(* (ClimateDashboard, UserMapDashboard.jsx).                               *)
(*                                                                         *)
(* The state is what the mount effect builds and the handlers mutate:      *)
(* the registry layersRef.current, the overlays mounted on the Leaflet     *)
(* map, the __gibs_* counters bolted onto each WMTS layer, the React state *)
(* activeVar and the promises in flight (probe, RainViewer prefetch,       *)
(* RainViewer lookup of the tileerror handler).                            *)
(*                                                                         *)
(* Variable names are written in ASCII ("Precipitacion" for                *)
(* "Precipitación").  The alternate list of "Precipitacion" (cfg.alt) and  *)
(* the presence of REACT_APP_OWM_KEY are inputs drawn in Init; the list    *)
(* shipped in LAYER_DEFS is ShippedAlt.                                    *)
(***************************************************************************)
EXTENDS Integers, Sequences, FiniteSets, TLC

\* ------------------------------------------------------------------------
\* Bounds and program constants
\* ------------------------------------------------------------------------

\* alternate lists (cfg.alt) of up to MaxAlts entries are all drawn in Init,
\* next to the shipped list and the list of the scenario of section 8
MaxAlts == 1

\* const tryDays = 5
tryDays == 5

\* new Date() of getDateOffsetFormatted, as a day number
Today == 20

\* value of layer.__gibs_altIdx before the handler first assigns it
Undefined == -1

\* ------------------------------------------------------------------------
\* The variable catalog
\* ------------------------------------------------------------------------

VarNames ==
  { "Temperatura terrestre", "Temperatura del mar",
    "Corrientes Oceanicas (Color)", "Precipitacion", "Vientos (OWM)" }

\* cfg.type and cfg.tileMatrixSet of each entry of LAYER_DEFS
LAYER_DEFS ==
  [ n \in VarNames |->
      CASE n = "Temperatura del mar" ->
             [type |-> "wmts", tileMatrixSet |-> "GoogleMapsCompatible_Level7"]
        [] n = "Precipitacion" ->
             [type |-> "wmts", tileMatrixSet |-> "GoogleMapsCompatible_Level9"]
        [] OTHER ->
             [type |-> "openweathermap", tileMatrixSet |-> ""] ]

WmtsVars == { n \in VarNames : LAYER_DEFS[n].type = "wmts" }

AltTypes == { "openweathermap", "xyz", "rainviewer" }

\* the alt list of "Precipitacion" as shipped
ShippedAlt == << "openweathermap", "rainviewer" >>

\* the alt list of the scenario "one alternate missing its credential, one
\* generic alternate"
ScenarioAlt == << "openweathermap", "xyz" >>

\* an alt list with the RainViewer candidate ahead of a generic one
RadarFirstAlt == << "rainviewer", "xyz" >>

\* the alternate lists drawn for "Precipitacion"
AltLists ==
  { ShippedAlt, ScenarioAlt, RadarFirstAlt } \cup UNION { [1..k -> AltTypes] : k \in 0..MaxAlts }

\* longest list in AltLists
MaxAltLen == IF MaxAlts < 2 THEN 2 ELSE MaxAlts

\* probeCoords has four entries
ProbeSamples == 4

\* the promise returned by probeTiles is still pending
NoRatio == [ hits |-> Undefined, of |-> Undefined ]

\* useState("Temperatura del mar"): the value of activeVar the mount effect
\* (dependency list []) closes over
CapturedActiveVar == "Temperatura del mar"

\* const matrixCandidates = [cfg.tileMatrixSet, Level8, Level7], 1-based
matrixCandidates(n) ==
  << LAYER_DEFS[n].tileMatrixSet,
     "GoogleMapsCompatible_Level8", "GoogleMapsCompatible_Level7" >>

\* makeUrlWithMatrix(date, matrix): the URL is determined by layer, date, matrix
makeUrlWithMatrix(n, date, matrix) ==
  [provider |-> "gibs", var |-> n, date |-> date, matrix |-> matrix]

\* the OpenWeatherMap tile URL built with the configured key
OwmUrl(n) ==
  [provider |-> "owm", var |-> n, date |-> 0, matrix |-> ""]

\* ------------------------------------------------------------------------
\* Layer objects
\* ------------------------------------------------------------------------

Layer(n, kind, idx) == [var |-> n, kind |-> kind, idx |-> idx]

NoLayer == Layer("", "none", 0)

\* the layer created for a WMTS variable in the mount effect, the one that
\* carries the __gibs_* counters and the fallback handler
Primary(n) == Layer(n, "primary", 0)

VARIABLES
  cfgAlt,        \* LAYER_DEFS["Precipitacion"].alt (types, in list order)
  hasKey,        \* process.env.REACT_APP_OWM_KEY is set
  activeVar,     \* React state activeVar
  layersRef,     \* layersRef.current : name -> layer
  mounted,       \* overlays for which map.hasLayer is true
  attemptDate,   \* layer.__gibs_attemptDate   (per WMTS primary layer)
  matrixIdx,     \* layer.__gibs_matrixIdx
  altIdx,        \* layer.__gibs_altIdx
  url,           \* layer._url
  prebuilt,      \* layer.__gibs_prebuiltRainViewer
  probe,         \* state of the probe async block ("none": the variable
                 \* has no cfg.alt and the block only logs the ratio)
  prefetch,      \* state of the RainViewer prefetch promise
  lookups,       \* RainViewer lookups of the handler still in flight
  issued,        \* URLs given to the primary layer, in order
  resolutions,   \* setUrl re-issues plus alternate attempts of the handler
  lastPath,      \* branches taken by the latest run of a tileerror handler
                 \* of the variable's layers
  swapActive,    \* was the variable the selected one when its registry
                 \* entry was last replaced ("none": never replaced)
  escaped,       \* an exception left a handler or a promise chain uncaught
  samples,       \* probeTiles: what each sample's promise resolved with
  imgDone,       \* probeTiles: img.onload or img.onerror has run
  timerDone,     \* probeTiles: the 3 s setTimeout callback has run
  ratio,         \* probeTiles: the value the returned promise resolved with
  clock,         \* the instant new Date() returns in the mount effect, in
                 \* hours since day 0, 00:00 UTC
  zone,          \* the time zone of the browser: its UTC offset in hours
                 \* before and after a clock change, and the instant of
                 \* the change
  view,          \* map.getZoom(), map.getCenter() and layerOpts.maxZoom
                 \* when the mount effect builds the probe
  probeCoords    \* const probeCoords (<< >>: not built yet)

vars == << cfgAlt, hasKey, activeVar, layersRef, mounted, attemptDate,
           matrixIdx, altIdx, url, prebuilt, probe, prefetch, lookups,
           issued, resolutions, lastPath, swapActive,
           escaped, samples, imgDone, timerDone, ratio,
           clock, zone, view, probeCoords >>

\* what the mount effect reads from the browser and the map, and the probe
\* coordinates it derives
envVars == << clock, zone, view, probeCoords >>

\* the state of one probeTiles call
probeVars == << samples, imgDone, timerDone, ratio >>

\* the state of the registry, the map and the fallback handlers
policyVars == << cfgAlt, hasKey, activeVar, layersRef, mounted, attemptDate,
                 matrixIdx, altIdx, url, prebuilt, probe, prefetch, lookups,
                 issued, resolutions, lastPath, swapActive >>

\* ------------------------------------------------------------------------
\* Dates: getDateOffsetFormatted and tryDates
\* ------------------------------------------------------------------------

\* hours in a day: Date.prototype.setDate moves the local date by whole days
\* and keeps the local time of day
HoursPerDay == 24

\* a zone without clock changes at UTC, the zone of Bogota (UTC-5, no clock
\* changes), and a zone that went from UTC+0 to UTC+1 at 01:00 UTC of day
\* Today (Europe/London on the last Sunday of March)
UtcZone == [ before |-> 0, after |-> 0, at |-> 0 ]

BogotaZone == [ before |-> 0 - 5, after |-> 0 - 5, at |-> 0 ]

LondonZone == [ before |-> 0, after |-> 1, at |-> Today * HoursPerDay + 1 ]

Zones == { UtcZone, BogotaZone, LondonZone }

\* 12:00 UTC and 23:00 UTC of day Today
Noon == Today * HoursPerDay + 12

LateEvening == Today * HoursPerDay + 23

Clocks == { Noon, LateEvening }

\* the offset of local time from UTC at the instant t
LocalTZA(z, t) == IF t < z.at THEN z.before ELSE z.after

\* d.getDate() and the other local fields read the local time of the instant
LocalTime(z, t) == t + LocalTZA(z, t)

\* the instant of a local time (ECMAScript UTC(t)): a local time the clock
\* change skipped or repeated is read with the offset before the change
UTC(z, w) ==
  IF w - z.after >= z.at /\ w - z.before >= z.at THEN w - z.after
                                                   ELSE w - z.before

\* d.toISOString().slice(0, 10): the UTC calendar day of the instant
ISODate(t) == t \div HoursPerDay

\* function getDateOffsetFormatted(offset):
\*   const d = new Date(); d.setDate(d.getDate() - offset);
\*   return d.toISOString().slice(0, 10);
getDateOffsetFormatted(now, z, offset) ==
  ISODate(UTC(z, LocalTime(z, now) - HoursPerDay * offset))

\* const tryDates = Array.from({length: tryDays}, (_, i) => ...), 1-based
tryDates == [ i \in 1..tryDays |-> getDateOffsetFormatted(clock, zone, i - 1) ]

\* ------------------------------------------------------------------------
\* The probe coordinates
\* ------------------------------------------------------------------------

\* longitudes are in tenths of a degree; a latitude is given by its
\* Mercator ordinate (1 - ln(tan(lat) + 1/cos(lat)) / pi) / 2 in thousandths
LonUnits == 10

MercUnits == 1000

\* L.map(..., { center: [4.6, -74.1], zoom: 6 }) and layerOpts.maxZoom: 10
MountView == [ zoom |-> 6, maxZoom |-> 10, lng |-> 0 - 741, merc |-> 487 ]

\* the views the probe is computed for: zoom between minZoom 2 and maxZoom
\* 10, layerOpts.maxZoom absent, 0 or set, centers on both edges of the world
Views ==
  [ zoom : 2..10, maxZoom : { Undefined, 0, 5, 8, 10 },
    lng : { 0 - 1800, 0 - 741, 0, 1799 }, merc : { 0, 487, 999 } ]

Min(a, b) == IF a < b THEN a ELSE b

\* const latLngToTile = (lat, lon, z) => ...
latLngToTile(merc, lon, z) ==
  [ x |-> ((lon + 180 * LonUnits) * 2^z) \div (360 * LonUnits),
    y |-> (merc * 2^z) \div MercUnits ]

\* const zProbe = Math.min(map.getZoom(), layerOpts.maxZoom || 6, 6)
zProbe(v) ==
  Min(v.zoom, Min(IF v.maxZoom = Undefined \/ v.maxZoom = 0 THEN 6 ELSE v.maxZoom, 6))

\* const centerTile = ...; const probeCoords = [ ... ]
BuildProbeCoords(v) ==
  LET z == zProbe(v)
      centerTile == latLngToTile(v.merc, v.lng, z)
  IN  << [ z |-> z, x |-> centerTile.x, y |-> centerTile.y ],
         [ z |-> z, x |-> centerTile.x + 1, y |-> centerTile.y ],
         [ z |-> z, x |-> centerTile.x, y |-> centerTile.y + 1 ],
         [ z |-> z, x |-> centerTile.x - 1, y |-> centerTile.y ] >>

\* cfg.alt of a variable; only "Precipitacion" declares one
HasAlt(n) == n = "Precipitacion"

Alts(n) == IF HasAlt(n) THEN cfgAlt ELSE << >>

HasAltOfType(n, t) == \E i \in 1..Len(Alts(n)) : Alts(n)[i] = t

\* owmAltImmediate && process.env.REACT_APP_OWM_KEY
OwmImmediate(n, alts, key) ==
  /\ HasAlt(n)
  /\ key
  /\ \E i \in 1..Len(alts) : alts[i] = "openweathermap"

\* the URL the primary layer is created with
InitialUrl(n, alts, key) ==
  IF OwmImmediate(n, alts, key)
    THEN OwmUrl(n)
    ELSE makeUrlWithMatrix(n, tryDates[1], LAYER_DEFS[n].tileMatrixSet)

\* ------------------------------------------------------------------------
\* Init: the state when the mount effect has run
\* ------------------------------------------------------------------------

\* the registry, the layers and the pending promises the mount effect leaves
InitPolicy ==
  /\ cfgAlt \in AltLists
  /\ hasKey \in BOOLEAN
  /\ activeVar = "Temperatura del mar"
  /\ layersRef = [ n \in VarNames |->
                     IF n \in WmtsVars THEN Primary(n) ELSE Layer(n, "owm", 0) ]
  /\ mounted = { layersRef[activeVar] }
  /\ attemptDate = [ n \in WmtsVars |-> 0 ]
  /\ matrixIdx = [ n \in WmtsVars |-> 0 ]
  /\ altIdx = [ n \in WmtsVars |-> Undefined ]
  /\ url = [ n \in WmtsVars |-> InitialUrl(n, cfgAlt, hasKey) ]
  /\ prebuilt = [ n \in WmtsVars |-> NoLayer ]
  /\ probe = [ n \in WmtsVars |-> IF HasAlt(n) THEN "pending" ELSE "none" ]
  /\ prefetch = [ n \in WmtsVars |->
                    IF HasAltOfType(n, "rainviewer") THEN "pending" ELSE "none" ]
  /\ lookups = [ n \in WmtsVars |-> {} ]
  /\ issued = [ n \in WmtsVars |-> << InitialUrl(n, cfgAlt, hasKey) >> ]
  /\ resolutions = [ n \in WmtsVars |-> 0 ]
  /\ lastPath = [ n \in WmtsVars |-> << >> ]
  /\ swapActive = [ n \in WmtsVars |-> "none" ]
  /\ escaped = FALSE
  /\ samples = [ i \in 1..ProbeSamples |-> "pending" ]
  /\ imgDone = [ i \in 1..ProbeSamples |-> FALSE ]
  /\ timerDone = [ i \in 1..ProbeSamples |-> FALSE ]
  /\ ratio = NoRatio

\* the dashboard mounted at noon UTC in a browser without clock changes,
\* with the view the map is created with
Init ==
  /\ clock = Noon
  /\ zone = UtcZone
  /\ view = MountView
  /\ probeCoords = BuildProbeCoords(view)
  /\ InitPolicy

\* ------------------------------------------------------------------------
\* layer.on('tileerror', ...) of a WMTS primary layer
\*
\* The handler works on the part of the state it can touch, held in a
\* record, because layer.fire('tileerror', ev) re-enters it synchronously.
\* ------------------------------------------------------------------------

HandlerState(n) ==
  [ attemptDate |-> attemptDate[n],
    matrixIdx   |-> matrixIdx[n],
    altIdx      |-> altIdx[n],
    url         |-> url[n],
    reg         |-> layersRef[n],
    mounted     |-> mounted,
    lookups     |-> lookups[n],
    issued      |-> issued[n],
    resolutions |-> resolutions[n],
    path        |-> << >> ]

\* layer.setUrl(newUrl)
SetUrl(s, newUrl) ==
  [ s EXCEPT !.url = newUrl,
             !.issued = Append(@, newUrl),
             !.resolutions = @ + 1 ]

\* if (nextDateAttempt < layer.__gibs_tryDates.length)
HasNextDate(s) == s.attemptDate + 1 < Len(tryDates)

\* the date branch: next date, same matrix
DateRetry(n, s) ==
  LET nextDateAttempt == s.attemptDate + 1
      newUrl == makeUrlWithMatrix(n, tryDates[nextDateAttempt + 1],
                                  matrixCandidates(n)[s.matrixIdx + 1])
  IN  SetUrl([ s EXCEPT !.attemptDate = nextDateAttempt,
                        !.path = Append(@, "date") ], newUrl)

\* HasNextMatrix with the matrix step skipped
HasNextMatrix_Never(n, s) == FALSE

\* if (layer.__gibs_matrixIdx + 1 < matrixCandidates.length)
HasNextMatrix(n, s) == s.matrixIdx + 1 < Len(matrixCandidates(n))

\* MatrixRetry with the increment of __gibs_matrixIdx left out
MatrixRetry_NoAdvance(n, s) ==
  LET newUrl == makeUrlWithMatrix(n, tryDates[1], matrixCandidates(n)[s.matrixIdx + 1])
  IN  SetUrl([ s EXCEPT !.attemptDate = 0,
                        !.path = Append(@, "matrix") ], newUrl)

\* the matrix branch: next matrix, date index back to 0
MatrixRetry(n, s) ==
  LET nextIdx == s.matrixIdx + 1
      newUrl == makeUrlWithMatrix(n, tryDates[1], matrixCandidates(n)[nextIdx + 1])
  IN  SetUrl([ s EXCEPT !.matrixIdx = nextIdx,
                        !.attemptDate = 0,
                        !.path = Append(@, "matrix") ], newUrl)

\* if (!layer.__gibs_altIdx) layer.__gibs_altIdx = 0
AltIdxOrZero(s) == IF s.altIdx = Undefined \/ s.altIdx = 0 THEN 0 ELSE s.altIdx

\* layer.__gibs_altIdx += 1 after reading the candidate
ConsumeAlt(s, branch) ==
  [ s EXCEPT !.altIdx = AltIdxOrZero(s) + 1,
             !.resolutions = @ + 1,
             !.path = Append(@, branch) ]

\* IsActiveInHandler with the test left out
IsActiveInHandler_Always(n) == TRUE

\* if (activeVar === name) inside the handler: the closure's activeVar
IsActiveInHandler(n) == CapturedActiveVar = n

\* layersRef.current[name] = altLayer;
\* if (map.hasLayer(layer)) map.removeLayer(layer);
\* if (activeVar === name) altLayer.addTo(map)
SwapLayer(n, s, newLayer) ==
  [ s EXCEPT !.reg = newLayer,
             !.mounted = (@ \ { Primary(n) })
                           \cup (IF IsActiveInHandler(n) THEN { newLayer } ELSE {}) ]

\* fetch('https://api.rainviewer.com/public/maps.json') started by the handler
StartLookup(s, idx) == [ s EXCEPT !.lookups = @ \cup { idx } ]

\* FallThrough starting the dates over
FallThrough_Restart(s) ==
  [ s EXCEPT !.attemptDate = 0, !.path = Append(@, "none") ]

\* the fall-through to the final console.warn: nothing is assigned
FallThrough(s) == [ s EXCEPT !.path = Append(@, "none") ]

RECURSIVE Handler(_, _, _, _, _)

\* SkipOwm without the layer.fire: the skip waits for the next failure
SkipOwm_NoFire(n, alts, key, pre, s) == ConsumeAlt(s, "owmSkip")

\* the keyed alternate without a key: console.warn, then
\* layer.fire('tileerror', ev) runs the handler again before the return
SkipOwm(n, alts, key, pre, s) ==
  Handler(n, alts, key, pre, ConsumeAlt(s, "owmSkip"))

Handler(n, alts, key, pre, s) ==
  IF HasNextDate(s) THEN DateRetry(n, s)
  ELSE IF HasNextMatrix(n, s) THEN MatrixRetry(n, s)
  ELSE IF ~HasAlt(n) THEN FallThrough(s)
  ELSE
    LET idx == AltIdxOrZero(s)
        s0  == [ s EXCEPT !.altIdx = idx ]
    IN  IF idx < Len(alts)
          THEN LET candidate == alts[idx + 1]
               IN  CASE candidate = "openweathermap" ->
                          IF ~key
                            THEN SkipOwm(n, alts, key, pre, s0)
                            ELSE SwapLayer(n, ConsumeAlt(s0, "owm"),
                                           Layer(n, "owmAlt", idx))
                     [] candidate = "xyz" ->
                          SwapLayer(n, ConsumeAlt(s0, "xyz"), Layer(n, "xyzAlt", idx))
                     [] candidate = "rainviewer" ->
                          IF pre # NoLayer
                            THEN SwapLayer(n, ConsumeAlt(s0, "rvPrebuilt"), pre)
                            ELSE StartLookup(ConsumeAlt(s0, "rvLookup"), idx)
          ELSE FallThrough(s0)

\* the registry entry of n is being replaced: note whether n is selected
NoteSwap(n, old, new) ==
  IF new = old THEN swapActive
  ELSE [ swapActive EXCEPT ![n] = IF activeVar = n THEN "active" ELSE "inactive" ]

\* SetOnLayer with one set of values shared by every layer
SetOnLayer_Shared(f, n, v) == [ m \in DOMAIN f |-> v ]

\* layer.__gibs_x = v, layer._url = v: a property of the layer of n only
SetOnLayer(f, n, v) == [ f EXCEPT ![n] = v ]

\* what a run of the handler of n that ends in r leaves behind
HandlerEffect(n, r) ==
  /\ attemptDate' = SetOnLayer(attemptDate, n, r.attemptDate)
  /\ matrixIdx' = SetOnLayer(matrixIdx, n, r.matrixIdx)
  /\ altIdx' = SetOnLayer(altIdx, n, r.altIdx)
  /\ url' = SetOnLayer(url, n, r.url)
  /\ layersRef' = [ layersRef EXCEPT ![n] = r.reg ]
  /\ mounted' = r.mounted
  /\ lookups' = [ lookups EXCEPT ![n] = r.lookups ]
  /\ issued' = [ issued EXCEPT ![n] = r.issued ]
  /\ resolutions' = [ resolutions EXCEPT ![n] = r.resolutions ]
  /\ lastPath' = [ lastPath EXCEPT ![n] = r.path ]
  /\ swapActive' = NoteSwap(n, layersRef[n], r.reg)

\* a tile of the primary layer of n fails to load while the layer is on the map
TileError(n) ==
  /\ Primary(n) \in mounted
  /\ LET r == Handler(n, Alts(n), hasKey, prebuilt[n], HandlerState(n))
     IN  HandlerEffect(n, r)
  /\ UNCHANGED << escaped, probeVars, envVars, cfgAlt, hasKey, activeVar, prebuilt, probe, prefetch >>

\* the layers whose URL ends in '?appid=' + key
KeyedKinds == { "owm", "owmAlt", "owmProbe" }

\* the layers built from an alternate provider
AltKinds == { "owmAlt", "xyzAlt", "rvAlt", "rvPrebuilt", "owmProbe", "rvProbe" }

\* the alternate layers of n the map is showing
MountedAlts(n) == { l \in mounted : l.var = n /\ l.kind \in AltKinds }

\* a tile of an alternate layer of n fails to load while the layer is on the
\* map: altLayer.on('tileerror', ...) is a console.warn and nothing else (the
\* layers built by the probe carry no handler at all)
AltTileError(n) ==
  /\ MountedAlts(n) # {}
  /\ lastPath' = [ lastPath EXCEPT ![n] = << "altLog" >> ]
  /\ UNCHANGED << escaped, probeVars, envVars, cfgAlt, hasKey, activeVar, layersRef, mounted,
                  attemptDate, matrixIdx, altIdx, url, prebuilt, probe, prefetch,
                  lookups, issued, resolutions, swapActive >>

\* the maps.json lookup started by the handler answers
\* (ok: a timestamp was returned; otherwise the fetch rejected or had none)
LookupResult(n, idx, ok) ==
  /\ idx \in lookups[n]
  /\ lookups' = [ lookups EXCEPT ![n] = @ \ { idx } ]
  /\ IF ok
       THEN LET rvLayer == Layer(n, "rvAlt", idx)
            IN  /\ layersRef' = [ layersRef EXCEPT ![n] = rvLayer ]
                /\ mounted' = (mounted \ { Primary(n) })
                                \cup (IF IsActiveInHandler(n) THEN { rvLayer } ELSE {})
                /\ swapActive' = NoteSwap(n, layersRef[n], rvLayer)
       ELSE UNCHANGED << layersRef, mounted, swapActive >>
  /\ UNCHANGED << escaped, probeVars, envVars, cfgAlt, hasKey, activeVar, attemptDate, matrixIdx, altIdx,
                  url, prebuilt, probe, prefetch, issued, resolutions, lastPath >>

\* ------------------------------------------------------------------------
\* The probe async block of the mount effect
\* ------------------------------------------------------------------------

\* LowRatio with a ratio of exactly 0.5 counted as low
LowRatio_Inclusive(hits) == 2 * hits <= ProbeSamples

\* results.filter(Boolean).length / results.length < 0.5
LowRatio(hits) == 2 * hits < ProbeSamples

\* cfg.alt.find(a => a.type === 'openweathermap') && REACT_APP_OWM_KEY
ProbeUsesOwm(n) == HasAltOfType(n, "openweathermap") /\ hasKey

\* probeTiles resolves with hits of the samples loaded
ProbeResult(n, hits) ==
  /\ probe[n] = "pending"
  /\ IF LowRatio(hits) /\ HasAlt(n)
       THEN IF ProbeUsesOwm(n)
              THEN /\ layersRef' = [ layersRef EXCEPT ![n] = Layer(n, "owmProbe", 0) ]
                   /\ swapActive' = NoteSwap(n, layersRef[n], Layer(n, "owmProbe", 0))
                   /\ probe' = [ probe EXCEPT ![n] = "done" ]
            ELSE IF HasAltOfType(n, "rainviewer")
              THEN IF prebuilt[n] # NoLayer
                     THEN /\ layersRef' = [ layersRef EXCEPT ![n] = prebuilt[n] ]
                          /\ swapActive' = NoteSwap(n, layersRef[n], prebuilt[n])
                          /\ probe' = [ probe EXCEPT ![n] = "done" ]
                     ELSE /\ probe' = [ probe EXCEPT ![n] = "fetching" ]
                          /\ UNCHANGED << layersRef, swapActive >>
            ELSE /\ probe' = [ probe EXCEPT ![n] = "done" ]
                 /\ UNCHANGED << layersRef, swapActive >>
       ELSE /\ probe' = [ probe EXCEPT ![n] = "done" ]
            /\ UNCHANGED << layersRef, swapActive >>
  /\ UNCHANGED << escaped, probeVars, envVars, cfgAlt, hasKey, activeVar, mounted, attemptDate, matrixIdx,
                  altIdx, url, prebuilt, prefetch, lookups, issued, resolutions, lastPath >>

\* ProbeLookupResult with the alternate taken recorded in __gibs_altIdx, as
\* the handler records the alternates it consumes
ProbeLookupResult_Counted(n, ok) ==
  /\ probe[n] = "fetching"
  /\ probe' = [ probe EXCEPT ![n] = "done" ]
  /\ layersRef' = IF ok THEN [ layersRef EXCEPT ![n] = Layer(n, "rvProbe", 0) ]
                        ELSE layersRef
  /\ swapActive' = IF ok THEN NoteSwap(n, layersRef[n], Layer(n, "rvProbe", 0))
                         ELSE swapActive
  /\ altIdx' = [ altIdx EXCEPT ![n] = Len(Alts(n)) ]
  /\ UNCHANGED << escaped, probeVars, envVars, cfgAlt, hasKey, activeVar, mounted, attemptDate, matrixIdx,
                  url, prebuilt, prefetch, lookups, issued, resolutions, lastPath >>

\* the maps.json fetch awaited by the probe answers
ProbeLookupResult(n, ok) ==
  /\ probe[n] = "fetching"
  /\ probe' = [ probe EXCEPT ![n] = "done" ]
  /\ layersRef' = IF ok THEN [ layersRef EXCEPT ![n] = Layer(n, "rvProbe", 0) ]
                        ELSE layersRef
  /\ swapActive' = IF ok THEN NoteSwap(n, layersRef[n], Layer(n, "rvProbe", 0))
                         ELSE swapActive
  /\ UNCHANGED << escaped, probeVars, envVars, cfgAlt, hasKey, activeVar, mounted, attemptDate, matrixIdx,
                  altIdx, url, prebuilt, prefetch, lookups, issued, resolutions, lastPath >>

\* ------------------------------------------------------------------------
\* The RainViewer prefetch of the mount effect
\* ------------------------------------------------------------------------

\* PrefetchResult with the layer built from the timestamp also written to
\* the registry, as the probe does with the layer it builds
PrefetchResult_Install(n, ok) ==
  /\ prefetch[n] = "pending"
  /\ prefetch' = [ prefetch EXCEPT ![n] = "done" ]
  /\ prebuilt' = IF ok THEN [ prebuilt EXCEPT ![n] = Layer(n, "rvPrebuilt", 0) ]
                       ELSE prebuilt
  /\ layersRef' = IF ok THEN [ layersRef EXCEPT ![n] = Layer(n, "rvPrebuilt", 0) ]
                        ELSE layersRef
  /\ UNCHANGED << escaped, probeVars, envVars, cfgAlt, hasKey, activeVar, mounted, attemptDate,
                  matrixIdx, altIdx, url, probe, lookups, issued, resolutions, lastPath,
                  swapActive >>

\* the maps.json fetch of the prefetch answers (ok: with a timestamp):
\* layer.__gibs_prebuiltRainViewer = rvLayer and nothing else
PrefetchResult(n, ok) ==
  /\ prefetch[n] = "pending"
  /\ prefetch' = [ prefetch EXCEPT ![n] = "done" ]
  /\ prebuilt' = IF ok THEN [ prebuilt EXCEPT ![n] = Layer(n, "rvPrebuilt", 0) ]
                       ELSE prebuilt
  /\ UNCHANGED << escaped, probeVars, envVars, cfgAlt, hasKey, activeVar, layersRef, mounted, attemptDate,
                  matrixIdx, altIdx, url, probe, lookups, issued, resolutions, lastPath,
                  swapActive >>

\* ------------------------------------------------------------------------
\* setActiveVar(w) and the useEffect([activeVar]) it triggers
\* ------------------------------------------------------------------------

\* Object.values(layersRef.current)
RegistryLayers == { layersRef[n] : n \in VarNames }

\* remove every registry layer the map has, then add the active one
SwitchLayers(w) == (mounted \ RegistryLayers) \cup { layersRef[w] }

SetActiveVar(w) ==
  /\ w # activeVar
  /\ activeVar' = w
  /\ mounted' = SwitchLayers(w)
  /\ UNCHANGED << escaped, probeVars, envVars, cfgAlt, hasKey, layersRef, attemptDate, matrixIdx, altIdx,
                  url, prebuilt, probe, prefetch, lookups, issued, resolutions, lastPath,
                  swapActive >>

\* ------------------------------------------------------------------------

Next ==
  \/ \E n \in WmtsVars : TileError(n)
  \/ \E n \in WmtsVars, idx \in 0..(MaxAltLen - 1) : \E ok \in BOOLEAN : LookupResult(n, idx, ok)
  \/ \E n \in WmtsVars, hits \in 0..ProbeSamples : ProbeResult(n, hits)
  \/ \E n \in WmtsVars, ok \in BOOLEAN : ProbeLookupResult(n, ok)
  \/ \E n \in WmtsVars, ok \in BOOLEAN : PrefetchResult(n, ok)
  \/ \E w \in VarNames : SetActiveVar(w)

Spec == Init /\ [][Next]_vars

\* the program with the catalog as shipped in LAYER_DEFS
InitShipped == Init /\ cfgAlt = ShippedAlt

SpecShipped == InitShipped /\ [][Next]_vars

\* the shipped program with the tile failures of the alternate layers, which
\* leave the state of the program as it is
NextAltErrors == Next \/ \E n \in WmtsVars : AltTileError(n)

SpecAltErrors == InitShipped /\ [][NextAltErrors]_vars

\* ------------------------------------------------------------------------
\* probeTiles(urlTemplate, coords): one promise per sampled tile
\* ------------------------------------------------------------------------

Samples == 1..ProbeSamples

\* Resolve with a later call replacing the value
Resolve_Overwrite(cur, v) == v

\* resolve(v) of a promise: the first call settles it, later calls do nothing
Resolve(cur, v) == IF cur = "pending" THEN v ELSE cur

\* img.onload = () => resolve(true)
ImgLoad(i) ==
  /\ ~imgDone[i]
  /\ imgDone' = [ imgDone EXCEPT ![i] = TRUE ]
  /\ samples' = [ samples EXCEPT ![i] = Resolve(@, "hit") ]
  /\ UNCHANGED << timerDone, ratio, escaped, envVars, policyVars >>

\* img.onerror = () => resolve(false)
ImgError(i) ==
  /\ ~imgDone[i]
  /\ imgDone' = [ imgDone EXCEPT ![i] = TRUE ]
  /\ samples' = [ samples EXCEPT ![i] = Resolve(@, "miss") ]
  /\ UNCHANGED << timerDone, ratio, escaped, envVars, policyVars >>

\* setTimeout(() => resolve(false), 3000)
Timeout(i) ==
  /\ ~timerDone[i]
  /\ timerDone' = [ timerDone EXCEPT ![i] = TRUE ]
  /\ samples' = [ samples EXCEPT ![i] = Resolve(@, "miss") ]
  /\ UNCHANGED << imgDone, ratio, escaped, envVars, policyVars >>

\* results.filter(Boolean).length
Hits == Cardinality({ i \in Samples : samples[i] = "hit" })

\* Promise.all(...).then(results => hits / results.length)
PromiseAll ==
  /\ ratio = NoRatio
  /\ \A i \in Samples : samples[i] # "pending"
  /\ ratio' = [ hits |-> Hits, of |-> ProbeSamples ]
  /\ UNCHANGED << samples, imgDone, timerDone, escaped, envVars, policyVars >>

NextProbeTiles ==
  \/ \E i \in Samples : ImgLoad(i)
  \/ \E i \in Samples : ImgError(i)
  \/ \E i \in Samples : Timeout(i)
  \/ PromiseAll

\* one call of probeTiles: every timer set by setTimeout runs, and so does
\* the reaction of a settled promise; an image may never answer
SpecProbeTiles ==
  /\ InitShipped
  /\ [][NextProbeTiles]_vars
  /\ \A i \in Samples : WF_vars(Timeout(i))
  /\ WF_vars(PromiseAll)

\* ------------------------------------------------------------------------
\* Exceptions: the try/catch nesting of the handlers
\*
\* One call of a run throws: layer.setUrl (L.TileLayer.setUrl stores the URL
\* and then redraws, so the exception comes once the URL is stored) or
\* map.removeLayer (the layer stays on the map).  altLayer.addTo is not
\* reached for a variable with alternates, see IsActiveInHandler.
\* ------------------------------------------------------------------------

ThrowPoints == { "setUrl", "removeLayer" }

\* a run of a handler so far: its state, and an exception on its way out
Return(s) == [ st |-> s, exc |-> FALSE ]

Raise(s) == [ st |-> s, exc |-> TRUE ]

\* Catch letting the exception through
Catch_Rethrow(r) == r

\* catch (e) { console.warn(...) }
Catch(r) == [ r EXCEPT !.exc = FALSE ]

\* try { layer.setUrl(newUrl); } catch (e) { console.warn('setUrl err', e); }
\* s: the state with the URL stored
TrySetUrl(s, t) == IF t = "setUrl" THEN Catch(Raise(s)) ELSE Return(s)

\* layersRef.current[name] = altLayer;
\* try { if (map.hasLayer(layer)) map.removeLayer(layer); ... } catch (e) {...}
TrySwap(n, s, newLayer, t) ==
  IF t = "removeLayer" /\ Primary(n) \in s.mounted
    THEN Catch(Raise([ s EXCEPT !.reg = newLayer ]))
    ELSE Return(SwapLayer(n, s, newLayer))

\* TryPrebuilt with catch (swapErr) ending the run of the handler
TryPrebuilt_Return(n, s, pre, idx, t) ==
  IF t = "removeLayer" /\ Primary(n) \in s.mounted
    THEN Catch(Raise([ s EXCEPT !.reg = pre ]))
    ELSE Return(SwapLayer(n, s, pre))

\* the prebuilt RainViewer swap: after catch (swapErr) the handler goes on
\* to the maps.json fetch
TryPrebuilt(n, s, pre, idx, t) ==
  IF t = "removeLayer" /\ Primary(n) \in s.mounted
    THEN LET r == Catch(Raise([ s EXCEPT !.reg = pre ]))
         IN  IF r.exc THEN r ELSE Return(StartLookup(r.st, idx))
    ELSE Return(SwapLayer(n, s, pre))

RECURSIVE HandlerThrows(_, _, _, _, _, _)

\* the handler with the call t throwing; the outermost Catch is catch (ee),
\* the next one catch (altErr), the ones of the branches catch (e) of the
\* layer.fire, catch (owmErr) and catch (rvErr)
HandlerThrows(n, alts, key, pre, s, t) ==
  Catch(
    IF HasNextDate(s) THEN TrySetUrl(DateRetry(n, s), t)
    ELSE IF HasNextMatrix(n, s) THEN TrySetUrl(MatrixRetry(n, s), t)
    ELSE IF ~HasAlt(n) THEN Return(FallThrough(s))
    ELSE Catch(
      LET idx == AltIdxOrZero(s)
          s0  == [ s EXCEPT !.altIdx = idx ]
      IN  IF idx < Len(alts)
            THEN LET candidate == alts[idx + 1]
                 IN  CASE candidate = "openweathermap" ->
                            IF ~key
                              THEN Catch(HandlerThrows(n, alts, key, pre,
                                                       ConsumeAlt(s0, "owmSkip"), t))
                              ELSE Catch(TrySwap(n, ConsumeAlt(s0, "owm"),
                                                 Layer(n, "owmAlt", idx), t))
                       [] candidate = "xyz" ->
                            TrySwap(n, ConsumeAlt(s0, "xyz"), Layer(n, "xyzAlt", idx), t)
                       [] candidate = "rainviewer" ->
                            IF pre # NoLayer
                              THEN Catch(TryPrebuilt(n, ConsumeAlt(s0, "rvPrebuilt"),
                                                     pre, idx, t))
                              ELSE Return(StartLookup(ConsumeAlt(s0, "rvLookup"), idx))
            ELSE Return(FallThrough(s0)) ) )

\* a tile of the primary layer of n fails and the call t of the handler throws
TileErrorThrows(n, t) ==
  /\ Primary(n) \in mounted
  /\ LET r == HandlerThrows(n, Alts(n), hasKey, prebuilt[n], HandlerState(n), t)
     IN  /\ HandlerEffect(n, r.st)
         /\ escaped' = (escaped \/ r.exc)
  /\ UNCHANGED << probeVars, envVars, cfgAlt, hasKey, activeVar, prebuilt, probe, prefetch >>

\* the lookup of the handler ends in an exception: "reject", the fetch or
\* res.json() rejects and .catch((fetchErr) => ...) takes it; "removeLayer",
\* the swap inside the then-callback throws and its catch (e) takes it
LookupThrows(n, idx, what) ==
  /\ idx \in lookups[n]
  /\ what = "removeLayer" => Primary(n) \in mounted
  /\ lookups' = [ lookups EXCEPT ![n] = @ \ { idx } ]
  /\ LET rvLayer == Layer(n, "rvAlt", idx)
         reg == IF what = "removeLayer" THEN rvLayer ELSE layersRef[n]
     IN  /\ layersRef' = [ layersRef EXCEPT ![n] = reg ]
         /\ swapActive' = NoteSwap(n, layersRef[n], reg)
  /\ escaped' = (escaped \/ Catch(Raise(HandlerState(n))).exc)
  /\ UNCHANGED << probeVars, envVars, cfgAlt, hasKey, activeVar, mounted, attemptDate,
                  matrixIdx, altIdx, url, prebuilt, probe, prefetch, issued,
                  resolutions, lastPath >>

\* the maps.json fetch awaited by the probe rejects, or its answer cannot be
\* read (j.timestamps of a null j): catch (e) of 'rainviewer probe err'
ProbeLookupThrows(n) ==
  /\ probe[n] = "fetching"
  /\ probe' = [ probe EXCEPT ![n] = "done" ]
  /\ escaped' = (escaped \/ Catch(Raise(HandlerState(n))).exc)
  /\ UNCHANGED << probeVars, envVars, cfgAlt, hasKey, activeVar, layersRef, mounted,
                  attemptDate, matrixIdx, altIdx, url, prebuilt, prefetch, lookups,
                  issued, resolutions, lastPath, swapActive >>

\* the prefetch rejects (.catch) or its answer cannot be read (catch (procErr))
PrefetchThrows(n) ==
  /\ prefetch[n] = "pending"
  /\ prefetch' = [ prefetch EXCEPT ![n] = "done" ]
  /\ escaped' = (escaped \/ Catch(Raise(HandlerState(n))).exc)
  /\ UNCHANGED << probeVars, envVars, cfgAlt, hasKey, activeVar, layersRef, mounted,
                  attemptDate, matrixIdx, altIdx, url, prebuilt, probe, lookups,
                  issued, resolutions, lastPath, swapActive >>

NextThrows ==
  \/ Next
  \/ \E n \in WmtsVars, t \in ThrowPoints : TileErrorThrows(n, t)
  \/ \E n \in WmtsVars, idx \in 0..(MaxAltLen - 1) :
       \E what \in { "reject", "removeLayer" } : LookupThrows(n, idx, what)
  \/ \E n \in WmtsVars : ProbeLookupThrows(n)
  \/ \E n \in WmtsVars : PrefetchThrows(n)

\* the shipped program with calls that throw
SpecThrows == InitShipped /\ [][NextThrows]_vars

\* ------------------------------------------------------------------------
\* The shipped program mounted at other hours and in other time zones
\* ------------------------------------------------------------------------

InitClock ==
  /\ clock \in Clocks
  /\ zone \in Zones
  /\ view = MountView
  /\ probeCoords = BuildProbeCoords(view)
  /\ InitPolicy
  /\ cfgAlt = ShippedAlt

SpecClock == InitClock /\ [][Next]_vars

\* ------------------------------------------------------------------------
\* The mount effect building the probe coordinates for a view
\* ------------------------------------------------------------------------

InitProbeCoords ==
  /\ clock = Noon
  /\ zone = UtcZone
  /\ view \in Views
  /\ probeCoords = << >>
  /\ InitPolicy
  /\ cfgAlt = ShippedAlt

\* lines 1368-1376 of the mount effect run
ComputeProbeCoords ==
  /\ probeCoords = << >>
  /\ probeCoords' = BuildProbeCoords(view)
  /\ UNCHANGED << clock, zone, view, escaped, probeVars, policyVars >>

SpecProbeCoords == InitProbeCoords /\ [][ComputeProbeCoords]_vars

\* ------------------------------------------------------------------------
\* Types
\* ------------------------------------------------------------------------

TypeOK ==
  /\ cfgAlt \in AltLists
  /\ hasKey \in BOOLEAN
  /\ activeVar \in VarNames
  /\ \A n \in WmtsVars :
       /\ attemptDate[n] \in 0..(tryDays - 1)
       /\ matrixIdx[n] \in 0..2
       /\ altIdx[n] \in Undefined..Len(Alts(n))
       /\ probe[n] \in { "pending", "fetching", "done", "none" }
       /\ prefetch[n] \in { "pending", "done", "none" }
  /\ escaped \in BOOLEAN
  /\ \A i \in Samples :
       /\ samples[i] \in { "pending", "hit", "miss" }
       /\ imgDone[i] \in BOOLEAN
       /\ timerDone[i] \in BOOLEAN
  /\ ratio = NoRatio \/ (ratio.of = ProbeSamples /\ ratio.hits \in 0..ProbeSamples)
  /\ clock \in Clocks
  /\ zone \in Zones
  /\ view \in Views
  /\ probeCoords = << >> \/ Len(probeCoords) = ProbeSamples

\* ------------------------------------------------------------------------
\* Vocabulary of the properties
\* ------------------------------------------------------------------------

\* N, M and |alternates| of a variable
NumDates == Len(tryDates)

NumMatrices(n) == Len(matrixCandidates(n))

NumAlts(n) == Len(Alts(n))

\* the alternate index as the handler reads it (!altIdx reads as 0)
AltIndex(n) == IF altIdx[n] = Undefined THEN 0 ELSE altIdx[n]

\* no date and no matrix candidate is left for the handler
WmtsExhausted(n) ==
  /\ attemptDate[n] = NumDates - 1
  /\ matrixIdx[n] = NumMatrices(n) - 1

\* the Exhausted state of the fallback policy
Exhausted(n) == WmtsExhausted(n) /\ (HasAlt(n) => AltIndex(n) = NumAlts(n))

\* ------------------------------------------------------------------------
\* C1
\* ------------------------------------------------------------------------

\* C1 as stated: the handler makes at most N + M + |alternates| resolutions
\* (setUrl re-issues plus alternate attempts).
C1_Original ==
  \A n \in WmtsVars : resolutions[n] <= NumDates + NumMatrices(n) + NumAlts(n)

\* C1 amended: the handler makes at most N * M + |alternates| resolutions,
\* because every matrix candidate is tried with every date.
C1_Bound ==
  \A n \in WmtsVars : resolutions[n] <= NumDates * NumMatrices(n) + NumAlts(n)

\* the handler has run to Exhausted through every date, matrix and alternate
C1_Witness ==
  \E n \in WmtsVars :
    /\ Exhausted(n)
    /\ NumAlts(n) > 0
    /\ resolutions[n] = NumDates * NumMatrices(n) - 1 + NumAlts(n)

\* ------------------------------------------------------------------------
\* C2
\* ------------------------------------------------------------------------

\* C2: no URL built from a (date, matrix identifier) pair is given to the
\* layer of a WMTS variable twice.
C2_NoPairTwice ==
  \A n \in WmtsVars :
    \A i, j \in 1..Len(issued[n]) : i # j => issued[n][i] # issued[n][j]

\* ------------------------------------------------------------------------
\* C3
\* ------------------------------------------------------------------------

\* C3: a tile failure handled in the Exhausted state changes no index, no
\* URL, no registry entry and no mounted layer, builds no URL and starts no
\* lookup.
C3_ExhaustionIdempotent ==
  [][ \A n \in WmtsVars :
        (Exhausted(n) /\ TileError(n)) =>
          /\ attemptDate' = attemptDate
          /\ matrixIdx' = matrixIdx
          /\ AltIndex(n)' = AltIndex(n)
          /\ url' = url
          /\ layersRef' = layersRef
          /\ mounted' = mounted
          /\ issued' = issued
          /\ resolutions' = resolutions
          /\ lookups' = lookups ]_vars

\* a failure signal was handled in the Exhausted state of a variable with
\* alternates
C3_Witness ==
  \E n \in WmtsVars :
    /\ Exhausted(n)
    /\ NumAlts(n) > 0
    /\ lastPath[n] = << "none" >>

\* ------------------------------------------------------------------------
\* C4
\* ------------------------------------------------------------------------

\* C4: the indices only move forward: the matrix and the alternate index
\* never decrease, the date index decreases only to 0 and only in the step
\* that increments the matrix index, and an alternate is attempted only when
\* no date and no matrix candidate is left.
C4_ForwardOnly ==
  [][ \A n \in WmtsVars :
        /\ matrixIdx'[n] >= matrixIdx[n]
        /\ AltIndex(n)' >= AltIndex(n)
        /\ attemptDate'[n] < attemptDate[n] =>
             (attemptDate'[n] = 0 /\ matrixIdx'[n] = matrixIdx[n] + 1)
        /\ AltIndex(n)' > AltIndex(n) => WmtsExhausted(n) ]_vars

\* the policy went through dates, matrices and then two alternates
C4_Witness ==
  \E n \in WmtsVars :
    /\ WmtsExhausted(n)
    /\ AltIndex(n) = 2
    /\ Len(issued[n]) = NumDates * NumMatrices(n)

\* ------------------------------------------------------------------------
\* C5
\* ------------------------------------------------------------------------

\* C5: when the answer of a timestamp lookup (of the handler or of the
\* probe) arrives, the new source is stored in the registry entry of its
\* variable and is put on the map exactly when that variable is the one
\* selected at that moment.
C5_ActiveAtArrival ==
  [][ \A n \in WmtsVars :
        /\ \A idx \in 0..(MaxAltLen - 1) :
             LookupResult(n, idx, TRUE) =>
               /\ layersRef'[n] = Layer(n, "rvAlt", idx)
               /\ Layer(n, "rvAlt", idx) \in mounted' <=> activeVar = n
        /\ ProbeLookupResult(n, TRUE) =>
             /\ layersRef'[n] = Layer(n, "rvProbe", 0)
             /\ Layer(n, "rvProbe", 0) \in mounted' <=> activeVar = n ]_vars

\* ------------------------------------------------------------------------
\* C6
\* ------------------------------------------------------------------------

\* C6: at most one climate overlay is mounted on the map.
C6_AtMostOneMounted == Cardinality(mounted) <= 1

\* ------------------------------------------------------------------------
\* C7
\* ------------------------------------------------------------------------

\* C7: the overlay mounted for the selected variable is exactly the source
\* stored in the registry under its name.
C7_MountedIsRegistry ==
  /\ layersRef[activeVar] \in mounted
  /\ \A l \in mounted : l.var = activeVar => l = layersRef[activeVar]

\* ------------------------------------------------------------------------
\* C8
\* ------------------------------------------------------------------------

\* C8: a step that replaces the registry entry of a variable that is not the
\* selected one changes no other registry entry, adds no layer to the map
\* and leaves the mounted layers of every other variable as they were.
C8_InactiveSwapFrame ==
  [][ \A n \in WmtsVars :
        (layersRef'[n] # layersRef[n] /\ activeVar # n) =>
          /\ \A m \in VarNames \ { n } : layersRef'[m] = layersRef[m]
          /\ mounted' \subseteq mounted
          /\ \A l \in mounted : l.var # n => l \in mounted'
          /\ activeVar' = activeVar ]_vars

\* the handler has swapped the source of a variable that was not selected
C8_Witness ==
  \E n \in WmtsVars :
    /\ swapActive[n] = "inactive"
    /\ layersRef[n].kind \in { "owmAlt", "xyzAlt", "rvAlt" }
    /\ mounted = { layersRef[activeVar] }

\* ------------------------------------------------------------------------
\* C9
\* ------------------------------------------------------------------------

\* C9: when the handler (or the answer of its lookup) replaces the source of
\* the selected variable, the old source is off the map and the new one is
\* on the map after the step.
C9_SwapMountsNew ==
  [][ \A n \in WmtsVars :
        ( /\ activeVar = n
          /\ layersRef'[n] # layersRef[n]
          /\ TileError(n) \/ \E idx \in 0..(MaxAltLen - 1) : LookupResult(n, idx, TRUE) ) =>
          /\ layersRef'[n] \in mounted'
          /\ layersRef[n] \notin mounted' ]_vars

\* ------------------------------------------------------------------------
\* C10
\* ------------------------------------------------------------------------

\* index (0-based) of the first alternate at or after i that is not a keyed
\* provider, Len(alts) when there is none
RECURSIVE FirstUnkeyed(_, _)
FirstUnkeyed(alts, i) ==
  IF i >= Len(alts) \/ alts[i + 1] # "openweathermap" THEN i
  ELSE FirstUnkeyed(alts, i + 1)

\* C10: a failure that meets a keyed alternate while no key is configured
\* mounts nothing for it, consumes it once and attempts the next alternate
\* of the list in the same step; if none is left the step ends in Exhausted
\* and changes neither the registry nor the mounted layers.
C10_MissingKeySkip ==
  [][ \A n \in WmtsVars :
        ( /\ WmtsExhausted(n)
          /\ HasAlt(n)
          /\ ~hasKey
          /\ AltIndex(n) < NumAlts(n)
          /\ Alts(n)[AltIndex(n) + 1] = "openweathermap"
          /\ TileError(n) ) =>
          LET i == AltIndex(n)
              j == FirstUnkeyed(Alts(n), i)
          IN  /\ \A l \in mounted' \cup { layersRef'[n] } : l.kind # "owmAlt"
              /\ resolutions'[n] =
                   resolutions[n] + (j - i) + (IF j < NumAlts(n) THEN 1 ELSE 0)
              /\ IF j = NumAlts(n)
                   THEN /\ altIdx'[n] = NumAlts(n)
                        /\ Exhausted(n)'
                        /\ layersRef' = layersRef
                        /\ mounted' = mounted
                        /\ lookups' = lookups
                   ELSE /\ altIdx'[n] = j + 1
                        /\ CASE Alts(n)[j + 1] = "xyz" ->
                                  layersRef'[n] = Layer(n, "xyzAlt", j)
                             [] Alts(n)[j + 1] = "rainviewer" ->
                                  IF prebuilt[n] # NoLayer
                                    THEN layersRef'[n] = prebuilt[n]
                                    ELSE j \in lookups'[n] ]_vars

\* a keyed alternate was skipped for want of a key and the next alternate
\* was attempted by the same run of the handler
C10_Witness ==
  \E n \in WmtsVars :
    /\ ~hasKey
    /\ Len(lastPath[n]) = 2
    /\ lastPath[n][1] = "owmSkip"
    /\ lastPath[n][2] # "none"

\* ------------------------------------------------------------------------
\* C11
\* ------------------------------------------------------------------------

\* C11: when the RainViewer timestamp lookup of the handler fails (the fetch
\* rejects or returns no timestamp) and the list holds a further alternate,
\* that step itself advances the policy to the next alternate: no further
\* tile failure is needed
C11_LookupFailureAdvances ==
  [][ \A n \in WmtsVars, idx \in 0..(MaxAltLen - 1) :
        ( /\ idx + 1 < NumAlts(n)
          /\ AltIndex(n) = idx + 1
          /\ LookupResult(n, idx, FALSE) )
          => AltIndex(n)' = idx + 2 ]_vars

\* ------------------------------------------------------------------------
\* C12
\* ------------------------------------------------------------------------

\* C12: a tile failure that arrives while a transition of the variable is
\* still pending (the timestamp lookup of an alternate is in flight, the URL
\* of the failing tiles is the one already being replaced) is ignored: it
\* moves neither the counters, nor the URL, nor the registry entry
C12_StackedFailuresIgnored ==
  [][ \A n \in WmtsVars :
        (lookups[n] # {} /\ TileError(n))
          => /\ AltIndex(n)' = AltIndex(n)
             /\ attemptDate'[n] = attemptDate[n]
             /\ matrixIdx'[n] = matrixIdx[n]
             /\ url'[n] = url[n]
             /\ layersRef'[n] = layersRef[n] ]_vars

\* ------------------------------------------------------------------------
\* C13
\* ------------------------------------------------------------------------

\* C13: when a tile of a mounted alternate layer fails, after the handler
\* has switched the variable to an alternate, the policy advances to the
\* next alternate of the list; when that alternate was the last one, the
\* policy is Exhausted afterwards
C13_AlternateFailureAdvances ==
  [][ \A n \in WmtsVars :
        (AltIndex(n) >= 1 /\ AltTileError(n))
          => IF AltIndex(n) < NumAlts(n)
               THEN AltIndex(n)' = AltIndex(n) + 1
               ELSE Exhausted(n)' ]_vars

\* ------------------------------------------------------------------------
\* C14
\* ------------------------------------------------------------------------

\* C14: with 5 candidate dates and the alternates [keyed provider without a
\* key, generic provider], when every dated tile fails the policy issues
\* the 5 dated URLs of the variable's own matrix and no URL of another
\* matrix, skips the keyed alternate and takes the generic one, which is
\* mounted while the variable is selected: 5 + 2 = 7 resolutions at the end
C14_Scenario ==
  (cfgAlt = ScenarioAlt /\ ~hasKey) =>
    LET n == "Precipitacion"
    IN  /\ matrixIdx[n] = 0
        /\ Len(issued[n]) <= NumDates
        /\ AltIndex(n) = NumAlts(n) =>
              /\ Len(issued[n]) + AltIndex(n) = 7
              /\ layersRef[n].kind = "xyzAlt"
              /\ (activeVar = n => layersRef[n] \in mounted)

\* ------------------------------------------------------------------------
\* C15
\* ------------------------------------------------------------------------

\* C15: no exception leaves a handler or a promise chain of the fallback
\* policy (a throwing setUrl, a throwing removeLayer during a swap, a
\* rejected or unreadable lookup), and the counters and the registry stay
\* in the range in which the handler works on the next signal
C15_NoEscape ==
  /\ ~escaped
  /\ \A n \in WmtsVars :
       /\ attemptDate[n] \in 0..(NumDates - 1)
       /\ matrixIdx[n] \in 0..(NumMatrices(n) - 1)
       /\ AltIndex(n) \in 0..NumAlts(n)
       /\ layersRef[n].var = n

\* the removeLayer of the OpenWeatherMap swap threw (the registry holds the
\* alternate and the old layer is still on the map), and the next failure
\* was handled: the handler went on to the RainViewer alternate
C15_Witness ==
  \E n \in WmtsVars :
    /\ layersRef[n].kind = "owmAlt"
    /\ Primary(n) \in mounted
    /\ AltIndex(n) = 2

\* ------------------------------------------------------------------------
\* C16
\* ------------------------------------------------------------------------

\* C16: without an API key no layer of a keyed provider exists: neither the
\* registry nor the map holds a layer whose URL was built with the empty
\* key, be the provider the primary one of a variable or an alternate
C16_NoKeylessSource ==
  ~hasKey =>
    /\ \A n \in VarNames : layersRef[n].kind \notin KeyedKinds
    /\ \A l \in mounted : l.kind \notin KeyedKinds

\* ------------------------------------------------------------------------
\* C17
\* ------------------------------------------------------------------------

\* the probe leaves the map and the counters of every layer alone
ProbeFrame ==
  /\ mounted' = mounted
  /\ attemptDate' = attemptDate
  /\ matrixIdx' = matrixIdx
  /\ altIdx' = altIdx
  /\ url' = url

C18_ProbeTilesCompletes ==
  /\ <>(ratio # NoRatio)
  /\ [](ratio # NoRatio =>
          /\ ratio.of = ProbeSamples
          /\ ratio.hits \in 0..ratio.of
          /\ ratio.hits = Hits)
  /\ [][ \A i \in Samples :
            /\ samples[i] # "pending" => samples'[i] = samples[i]
            /\ (samples[i] = "pending" /\ ImgLoad(i)) => samples'[i] = "hit"
            /\ (samples[i] = "pending" /\ (ImgError(i) \/ Timeout(i)))
                 => samples'[i] = "miss" ]_vars

\* probeTiles has resolved; one sample loaded and its timer ran afterwards,
\* one never answered, one answered only after its timeout
C18_Witness ==
  /\ ratio # NoRatio
  /\ \E i \in Samples : samples[i] = "hit" /\ timerDone[i]
  /\ \E i \in Samples : samples[i] = "miss" /\ ~imgDone[i]
  /\ \E i \in Samples : samples[i] = "miss" /\ imgDone[i] /\ timerDone[i]

\* ------------------------------------------------------------------------
\* C19
\* ------------------------------------------------------------------------

\* the source of n is swapped or re-issued in this step
SourceChanges(n) ==
  \/ layersRef'[n] # layersRef[n]
  \/ n \in WmtsVars /\ url'[n] # url[n]

\* registry entry, counters and prebuilt alternate of m are left as they are
VariableUnchanged(m) ==
  /\ layersRef'[m] = layersRef[m]
  /\ m \in WmtsVars =>
       /\ attemptDate'[m] = attemptDate[m]
       /\ matrixIdx'[m] = matrixIdx[m]
       /\ altIdx'[m] = altIdx[m]
       /\ url'[m] = url[m]
       /\ prebuilt'[m] = prebuilt[m]

\* C19: a step that swaps or re-issues the source of one variable changes
\* neither the registry entry, nor the counters, nor the prebuilt alternate
\* of any other variable
C19_OtherVariablesUntouched ==
  [][ \A n \in VarNames :
        SourceChanges(n) => \A m \in VarNames \ { n } : VariableUnchanged(m) ]_vars

\* "Precipitacion" has been swapped to its generic alternate while
\* "Temperatura del mar" sits in the middle of its own dates and matrices
C19_Witness ==
  /\ layersRef["Precipitacion"].kind = "xyzAlt"
  /\ layersRef["Temperatura del mar"] = Primary("Temperatura del mar")
  /\ attemptDate["Temperatura del mar"] = 3
  /\ matrixIdx["Temperatura del mar"] = 1

\* ------------------------------------------------------------------------
\* C20
\* ------------------------------------------------------------------------

\* the candidates the policy of n has not consumed yet
Rank(n) ==
  (NumDates * NumMatrices(n) - 1 - (matrixIdx[n] * NumDates + attemptDate[n]))
    + (NumAlts(n) - AltIndex(n))

\* failures of the layers of n still reach the fallback handler: its layer
\* is on the map, or is the registry entry that selecting n mounts
HandlerReachable(n) == Primary(n) \in mounted \/ layersRef[n] = Primary(n)

\* C20: under an unbounded stream of tile failures the policy of a variable
\* reaches Exhausted after finitely many steps: every failure handled short
\* of Exhausted consumes at least one candidate (the re-entrant signal of a
\* keyed alternate without a key included), and once the handler is on the
\* alternates the failures keep being handled until the policy is Exhausted
C20_ReachesExhausted ==
  /\ [][ \A n \in WmtsVars :
            (~Exhausted(n) /\ TileError(n)) => Rank(n)' < Rank(n) ]_vars
  /\ [](\A n \in WmtsVars :
          (AltIndex(n) >= 1 /\ ~Exhausted(n)) => HandlerReachable(n))
\* ------------------------------------------------------------------------
\* C21: once the registry entry of a variable no longer holds the primary
\* layer, the primary layer's fallback state is dead: neither a tile failure
\* of the primary layer nor the answer of a lookup its handler started
\* changes the registry or the layers on the map.
\* ------------------------------------------------------------------------

C21_ReplacedSourceIsDead ==
  [][ \A n \in WmtsVars :
        /\ layersRef[n] # Primary(n)
        /\ \/ TileError(n)
           \/ \E idx \in lookups[n], ok \in BOOLEAN : LookupResult(n, idx, ok)
        => /\ layersRef' = layersRef
           /\ mounted' = mounted ]_vars

\* ------------------------------------------------------------------------
\* C22: the first URL issued for a WMTS variable is the one of date
\* candidate 0 and matrix candidate 0, also when an OpenWeatherMap alternate
\* and a key are configured.
\* ------------------------------------------------------------------------

C22_FirstUrlIsFirstAttempt ==
  \A n \in WmtsVars :
    issued[n][1] = makeUrlWithMatrix(n, tryDates[1], matrixCandidates(n)[1])

\* ------------------------------------------------------------------------
\* C24
\* ------------------------------------------------------------------------

\* the deepest zoom level a GoogleMapsCompatible_Level<k> matrix set serves:
\* the larger, the finer
MatrixLevel(matrix) ==
  CASE matrix = "GoogleMapsCompatible_Level9" -> 9
    [] matrix = "GoogleMapsCompatible_Level8" -> 8
    [] matrix = "GoogleMapsCompatible_Level7" -> 7

\* C24: a tile failure with the date index at its last value and a further
\* matrix candidate available increases the matrix index by one, resets the
\* date index to 0, gives the layer the URL of (date 0, new matrix), and the
\* new matrix is strictly coarser than every matrix tried before.
C24_MatrixRetryCoarser ==
  [][ \A n \in WmtsVars :
        /\ attemptDate[n] = NumDates - 1
        /\ matrixIdx[n] + 1 < NumMatrices(n)
        /\ TileError(n)
        => /\ matrixIdx'[n] = matrixIdx[n] + 1
           /\ attemptDate'[n] = 0
           /\ url'[n] = makeUrlWithMatrix(n, tryDates[1],
                                          matrixCandidates(n)[matrixIdx'[n] + 1])
           /\ \A k \in 1..(matrixIdx[n] + 1) :
                MatrixLevel(matrixCandidates(n)[matrixIdx'[n] + 1])
                  < MatrixLevel(matrixCandidates(n)[k]) ]_vars

\* ------------------------------------------------------------------------
\* C25: a probe that resolves with a low ratio while matrix candidates
\* remain untried moves the layer to the next matrix candidate and does not
\* put an alternate provider into the registry.
\* ------------------------------------------------------------------------

C25_ProbeTakesNextMatrix ==
  [][ \A n \in WmtsVars : \A hits \in 0..ProbeSamples :
        /\ LowRatio(hits)
        /\ HasAlt(n)
        /\ matrixIdx[n] + 1 < NumMatrices(n)
        /\ ProbeResult(n, hits)
        => /\ matrixIdx'[n] = matrixIdx[n] + 1
           /\ layersRef'[n] = layersRef[n] ]_vars

\* ------------------------------------------------------------------------
\* C29: when the handler of a WMTS variable has attempted its first
\* alternate, the URL of every (date, matrix) combination, (date 0, matrix 0)
\* included, has been issued for the variable.
\* ------------------------------------------------------------------------

C29_AllPairsBeforeAlternate ==
  \A n \in WmtsVars :
    AltIndex(n) >= 1 =>
      \A d \in 1..NumDates : \A m \in 1..NumMatrices(n) :
        \E i \in 1..Len(issued[n]) :
          issued[n][i] = makeUrlWithMatrix(n, tryDates[d], matrixCandidates(n)[m])

\* ------------------------------------------------------------------------
\* C30: the completion of the RainViewer prefetch, with or without a
\* timestamp, before or after the registry entry of the variable was
\* replaced, changes at most the prebuilt layer cached for the variable: the
\* registry, the mounted layers, the date, matrix and alternate indexes and
\* the layer URLs are unchanged.
\* ------------------------------------------------------------------------

C30_PrefetchOnlyFillsCache ==
  [][ \A n \in WmtsVars : \A ok \in BOOLEAN :
        PrefetchResult(n, ok) =>
          /\ layersRef' = layersRef
          /\ mounted' = mounted
          /\ attemptDate' = attemptDate
          /\ matrixIdx' = matrixIdx
          /\ altIdx' = altIdx
          /\ url' = url
          /\ \A m \in WmtsVars \ { n } : prebuilt'[m] = prebuilt[m]
          /\ prebuilt'[n] = IF ok THEN Layer(n, "rvPrebuilt", 0) ELSE prebuilt[n] ]_vars

\* the prefetch has filled the cache of a variable whose registry entry the
\* probe replaced by a layer it built itself
C30_Witness ==
  \E n \in WmtsVars :
    /\ prefetch[n] = "done"
    /\ prebuilt[n] = Layer(n, "rvPrebuilt", 0)
    /\ layersRef[n] = Layer(n, "rvProbe", 0)

\* ------------------------------------------------------------------------
\* C26
\* ------------------------------------------------------------------------

\* the date, matrix and alternate index of every layer
Counters == << attemptDate, matrixIdx, altIdx >>

\* C26 as stated: a probe-driven switch, a probe step that replaces the
\* registry entry of a variable, writes the attempt counters of its layer.
C26_Original ==
  [][ \A n \in WmtsVars : \A hits \in 0..ProbeSamples : \A ok \in BOOLEAN :
        /\ ProbeResult(n, hits) \/ ProbeLookupResult(n, ok)
        /\ layersRef'[n] # layersRef[n]
        => Counters' # Counters ]_vars

\* C26 amended: no step of the probe path writes a date, matrix or alternate
\* index, and every step that changes one of them is a run of the tileerror
\* handler; what the two paths both write is the registry entry.
C26_OnlyHandlerWritesCounters ==
  [][ /\ \A n \in WmtsVars : \A hits \in 0..ProbeSamples : \A ok \in BOOLEAN :
           ProbeResult(n, hits) \/ ProbeLookupResult(n, ok) => Counters' = Counters
      /\ Counters' # Counters => \E n \in WmtsVars : TileError(n) ]_vars

\* the probe has replaced the registry entry of a layer whose counters the
\* handler has advanced
C26_Witness ==
  \E n \in WmtsVars :
    /\ layersRef[n].kind \in { "owmProbe", "rvProbe" }
    /\ probe[n] = "done"
    /\ attemptDate[n] + matrixIdx[n] > 0

\* ------------------------------------------------------------------------
\* C27
\* ------------------------------------------------------------------------

\* this step is a run of the handler of n that consumes alternates up to a
\* RainViewer alternate
HandlerReachesRain(n) ==
  /\ TileError(n) \/ \E t \in ThrowPoints : TileErrorThrows(n, t)
  /\ AltIndex(n)' > AltIndex(n)
  /\ Alts(n)[AltIndex(n)'] = "rainviewer"

\* this step is a probe result that goes to the RainViewer alternate
ProbeReachesRain(n) ==
  /\ ~ProbeUsesOwm(n)
  /\ HasAltOfType(n, "rainviewer")
  /\ \E hits \in 0..ProbeSamples : LowRatio(hits) /\ ProbeResult(n, hits)

\* the probe path at a RainViewer alternate: the cached layer goes into the
\* registry and no fetch is awaited, or none is cached and the fetch is awaited
ProbeRainRule(n) ==
  IF prebuilt[n] # NoLayer
    THEN layersRef'[n] = prebuilt[n] /\ probe'[n] = "done"
    ELSE layersRef'[n] = layersRef[n] /\ probe'[n] = "fetching"

\* C27 as stated: at a RainViewer alternate a cached prebuilt layer is
\* swapped in and no lookup is started; a lookup is started only when no
\* layer is cached; on the handler path and on the probe path alike.
C27_Original ==
  [][ \A n \in WmtsVars :
        /\ HandlerReachesRain(n) =>
             IF prebuilt[n] # NoLayer
               THEN layersRef'[n] = prebuilt[n] /\ lookups'[n] = lookups[n]
               ELSE layersRef'[n] = layersRef[n]
                      /\ lookups'[n] = lookups[n] \cup { AltIndex(n)' - 1 }
        /\ ProbeReachesRain(n) => ProbeRainRule(n) ]_vars

\* C27 amended: as stated, except that when the swap to the cached layer
\* throws (the primary layer is still on the map after the step) the handler
\* goes on and starts the lookup although a layer is cached.
C27_PrebuiltOrLookup ==
  [][ \A n \in WmtsVars :
        /\ HandlerReachesRain(n) =>
             IF prebuilt[n] # NoLayer
               THEN /\ layersRef'[n] = prebuilt[n]
                    /\ IF Primary(n) \in mounted'
                         THEN lookups'[n] = lookups[n] \cup { AltIndex(n)' - 1 }
                         ELSE lookups'[n] = lookups[n]
               ELSE layersRef'[n] = layersRef[n]
                      /\ lookups'[n] = lookups[n] \cup { AltIndex(n)' - 1 }
        /\ ProbeReachesRain(n) => ProbeRainRule(n) ]_vars

\* the handler took the cached layer, the removal of the primary layer
\* threw, and the lookup is under way
C27_Witness ==
  \E n \in WmtsVars :
    /\ \E i \in 1..Len(lastPath[n]) : lastPath[n][i] = "rvPrebuilt"
    /\ layersRef[n] = prebuilt[n]
    /\ Primary(n) \in mounted
    /\ lookups[n] # {}

\* ------------------------------------------------------------------------
\* C23: a tile failure with a later date candidate available increases the
\* date index by one, keeps the matrix index and the alternate index, gives
\* the layer the URL of (new date, same matrix) and leaves the registry and
\* the mounted layers unchanged; the new date is today minus the new index
\* in days, strictly older than the date before.
\* ------------------------------------------------------------------------

C23_DateRetryOlder ==
  [][ \A n \in WmtsVars :
        /\ attemptDate[n] + 1 < NumDates
        /\ TileError(n)
        => /\ attemptDate'[n] = attemptDate[n] + 1
           /\ matrixIdx'[n] = matrixIdx[n]
           /\ altIdx'[n] = altIdx[n]
           /\ url'[n] = makeUrlWithMatrix(n, tryDates[attemptDate'[n] + 1],
                                          matrixCandidates(n)[matrixIdx[n] + 1])
           /\ layersRef' = layersRef
           /\ mounted' = mounted
           /\ tryDates[attemptDate'[n] + 1] = ISODate(clock) - attemptDate'[n]
           /\ tryDates[attemptDate'[n] + 1] < tryDates[attemptDate[n] + 1] ]_vars

\* ------------------------------------------------------------------------
\* C28
\* ------------------------------------------------------------------------

\* the tile under the center of the view at the zoom z
CenterTile(z) == latLngToTile(view.merc, view.lng, z)

\* min(current map zoom, the provider's maxZoom when it has one, 6)
ProbeZoom ==
  IF view.maxZoom = Undefined THEN Min(view.zoom, 6)
                              ELSE Min(view.zoom, Min(view.maxZoom, 6))

\* C28: the probe coordinates, once built, are five: the tile under the
\* center of the view and its neighbours at x+1, x-1, y+1 and y-1, all at
\* the zoom min(map zoom, maxZoom of the provider, 6).
C28_FiveProbeCoords ==
  probeCoords # << >> =>
    LET c == CenterTile(ProbeZoom)
    IN  /\ Len(probeCoords) = 5
        /\ { probeCoords[i] : i \in 1..Len(probeCoords) } =
             { [ z |-> ProbeZoom, x |-> c.x + dx, y |-> c.y + dy ] :
                 << dx, dy >> \in { << 0, 0 >>, << 1, 0 >>, << 0 - 1, 0 >>,
                                   << 0, 1 >>, << 0, 0 - 1 >> } }

====
